---- MODULE Spec2Model ----
(***************************************************************************)
(* State-machine model of elevation_layer::ElevationLayer                  *)
(* (elevation_layer/src/elevation_layer.cpp).                              *)
(*                                                                         *)
(* Two threads touch the layer: the subscriber thread that runs            *)
(* elevationMapCallback, and the costmap update thread that runs the       *)
(* synchronous cycle updateBounds -> updateCosts.  reconfigureCB,          *)
(* activate, deactivate and reset are calls of the host.  Each handler is  *)
(* cut where another thread can interleave: at the acquisition and the     *)
(* release of elevation_map_mutex_ and at every unlocked access.           *)
(*                                                                         *)
(* World coordinates are integers; one costmap cell is Res units wide, so  *)
(* cell centres and cell borders are both integers.  Heights are integers  *)
(* in units of 1/HeightScale, so that halving a threshold is exact for as  *)
(* many filtered commits as the model allows.                              *)
(***************************************************************************)
EXTENDS Integers, Sequences, FiniteSets, TLC

(* ------------------------------------------------------------------ *)
(* Bounds of the model                                                  *)
(* ------------------------------------------------------------------ *)

\* Invocations of elevationMapCallback in one behaviour.
MaxCallbacks == 2

(* ------------------------------------------------------------------ *)
(* Program constants and configuration                                  *)
(* ------------------------------------------------------------------ *)

FREE_SPACE == 0
LETHAL_OBSTACLE == 254
NO_INFORMATION == 255

Costs == {FREE_SPACE, LETHAL_OBSTACLE, NO_INFORMATION}

\* Size and resolution of the layer's costmap, taken from the master by matchSize().
SizeX == 3
SizeY == 1
Res == 2

\* height_threshold and edges_sharpness_threshold as read in onInitialize.
HeightThresholdParam == 4
EdgesSharpnessParam == 5

RECURSIVE Pow2(_)
Pow2(n) == IF n = 0 THEN 1 ELSE 2 * Pow2(n - 1)

\* Heights are stored multiplied by HeightScale.
HeightScale == Pow2(MaxCallbacks)

\* The configured threshold after n exact halvings, in stored units.
HT(n) == (HeightThresholdParam * HeightScale) \div Pow2(n)

Min(a, b) == IF a < b THEN a ELSE b
Max(a, b) == IF a > b THEN a ELSE b

\* C++ conversion of a quotient to int: truncation toward zero.
TruncDiv(a, b) == IF a >= 0 THEN a \div b ELSE -((-a) \div b)

(* ------------------------------------------------------------------ *)
(* grid_map::GridMap                                                    *)
(* ------------------------------------------------------------------ *)

\* A grid: centre position, size in cells, circular-buffer start index,
\* frame, and the layers held, each a sequence over the storage indices.
\* hasElev / hasEdges say whether the named layer exists.
EmptyGrid ==
  [cx |-> 0, cy |-> 0, nx |-> 0, ny |-> 0, start |-> 0, frame |-> "map",
   hasElev |-> FALSE, elev |-> << >>, hasEdges |-> FALSE, edges |-> << >>]

\* Number of cells, the range of grid_map::GridMapIterator.
GridCells(g) == g.nx * g.ny

\* Storage index (column-major linear index k) to the 2-d index of the cell.
GridIndex(g, k) == <<k % g.nx, k \div g.nx>>

\* GridMap::getPosition: the centre of the cell of storage index k.  Index 0
\* after unwrapping the start index is the cell of largest x and y.
GridPosition(g, k) ==
  LET ix == GridIndex(g, k)
      ux == (ix[1] - g.start + g.nx) % g.nx
      uy == ix[2]
  IN  << g.cx + (g.nx * Res) \div 2 - Res \div 2 - ux * Res,
         g.cy + (g.ny * Res) \div 2 - Res \div 2 - uy * Res >>

\* GridMap::convertToDefaultStartIndex: the data is rotated so that the
\* start index becomes 0; every position keeps its values.
RotateLayer(g, data) ==
  [k \in 1..Len(data) |->
     LET ix == GridIndex(g, k - 1)
         sx == (ix[1] + g.start) % g.nx
     IN  data[ix[2] * g.nx + sx + 1]]

ConvertToDefaultStartIndex(g) ==
  [g EXCEPT !.start = 0,
            !.elev = RotateLayer(g, g.elev),
            !.edges = RotateLayer(g, g.edges)]

(* ------------------------------------------------------------------ *)
(* Incoming messages and the filter chain                               *)
(* ------------------------------------------------------------------ *)

\* The grids the subscriber can deliver.  Heights sit on and next to the
\* thresholds the layer can hold, so that the boundary cases occur.
MsgHigh ==
  [cx |-> 2, cy |-> 1, nx |-> 2, ny |-> 1, start |-> 0, frame |-> "map",
   hasElev |-> TRUE, elev |-> <<HT(0) + 1, HT(0)>>,
   hasEdges |-> FALSE, edges |-> << >>]

\* A grid whose circular buffer does not start at 0, reaching past the costmap.
MsgShifted ==
  [cx |-> 6, cy |-> 1, nx |-> 2, ny |-> 1, start |-> 1, frame |-> "odom",
   hasElev |-> TRUE, elev |-> <<HT(1), HT(1) + 1>>,
   hasEdges |-> FALSE, edges |-> << >>]

\* A message whose conversion fails before any layer is copied: the
\* geometry is set and no layer exists.
MsgBroken ==
  [cx |-> 2, cy |-> 1, nx |-> 2, ny |-> 1, start |-> 0, frame |-> "map",
   hasElev |-> FALSE, elev |-> << >>,
   hasEdges |-> FALSE, edges |-> << >>]

Msgs == {MsgHigh, MsgShifted, MsgBroken}

\* GridMapRosConverter::fromMessage returns false for MsgBroken.
FromMessageOk(m) == m.hasElev

\* The edge-sharpness layer the filter chain computes: one cell on the
\* sharpness threshold, one just below it.
EdgeLayer == <<EdgesSharpnessParam, EdgesSharpnessParam - 1>>

\* The output of filterChain_.update when it succeeds: the input plus an
\* edges layer.
FilterOutput(g) == [g EXCEPT !.hasEdges = TRUE, !.edges = EdgeLayer]

(* ------------------------------------------------------------------ *)
(* costmap_2d::Costmap2D / CostmapLayer primitives the layer calls      *)
(* ------------------------------------------------------------------ *)

CellIds == 0 .. (SizeX * SizeY - 1)

\* Costmap2D::getIndex
GetIndex(mx, my) == my * SizeX + mx

CellX(c) == c % SizeX
CellY(c) == c \div SizeX

\* Costmap2D::worldToMap: <<inside, mx, my>> for a world point and an origin.
WorldToMap(ox, oy, wx, wy) ==
  IF wx < ox \/ wy < oy
  THEN <<FALSE, 0, 0>>
  ELSE LET mx == TruncDiv(wx - ox, Res)
           my == TruncDiv(wy - oy, Res)
       IN  IF mx < SizeX /\ my < SizeY
           THEN <<TRUE, mx, my>>
           ELSE <<FALSE, 0, 0>>

\* Costmap2D::updateOrigin: the new origin, moved by whole cells.
NewOrigin(o, n) == o + TruncDiv(n - o, Res) * Res

\* Costmap2D::updateOrigin: the window is shifted by whole cells; cells that
\* enter the window hold the default value.
ShiftCostmap(cm, dflt, dx, dy) ==
  [c \in CellIds |->
     LET sx == CellX(c) + dx
         sy == CellY(c) + dy
     IN  IF sx >= 0 /\ sx < SizeX /\ sy >= 0 /\ sy < SizeY
         THEN cm[GetIndex(sx, sy)]
         ELSE dflt]

\* Costmap2D::resetMaps
ResetMaps(dflt) == [c \in CellIds |-> dflt]

\* Layer::touch on bounds <<min_x, min_y, max_x, max_y>>.
Touch(b, x, y) ==
  <<Min(x, b[1]), Min(y, b[2]), Max(x, b[3]), Max(y, b[4])>>

\* CostmapLayer::useExtraBounds: addExtraBounds is never called by the layer,
\* so no extra bounds are pending and the bounds pass through.
UseExtraBounds(b) == b

\* Layer::getFootprint: the robot's footprint in its own frame, an
\* axis-aligned rectangle reaching from the robot's cell into the next.
Footprint == << <<-1, -1>>, <<3, -1>>, <<3, 1>>, <<-1, 1>> >>

\* Yaw is a number of quarter turns, so that cos and sin are exact.
Cos4(q) == CASE q % 4 = 0 -> 1 [] q % 4 = 2 -> -1 [] OTHER -> 0
Sin4(q) == CASE q % 4 = 1 -> 1 [] q % 4 = 3 -> -1 [] OTHER -> 0

\* costmap_2d::transformFootprint
TransformFootprint(x, y, yaw, fp) ==
  [i \in 1..Len(fp) |->
     << x + fp[i][1] * Cos4(yaw) - fp[i][2] * Sin4(yaw),
        y + fp[i][1] * Sin4(yaw) + fp[i][2] * Cos4(yaw) >>]

\* The cells of the costmap under a polygon: for the rectangles the model
\* uses, the cells whose centre lies within the polygon.
CellsUnder(ox, oy, poly) ==
  IF Len(poly) = 0 THEN {}
  ELSE
    {c \in CellIds :
       LET px == ox + CellX(c) * Res + Res \div 2
           py == oy + CellY(c) * Res + Res \div 2
       IN  /\ \E i \in 1..Len(poly) : poly[i][1] <= px
           /\ \E i \in 1..Len(poly) : poly[i][1] >= px
           /\ \E i \in 1..Len(poly) : poly[i][2] <= py
           /\ \E i \in 1..Len(poly) : poly[i][2] >= py}

\* Costmap2D::setConvexPolygonCost
SetConvexPolygonCost(cm, ox, oy, poly, cost) ==
  [c \in CellIds |-> IF c \in CellsUnder(ox, oy, poly) THEN cost ELSE cm[c]]

\* The cells of the window min_i <= i < max_i, min_j <= j < max_j.
InRegion(c, r) ==
  /\ r[1] <= CellX(c) /\ CellX(c) < r[3]
  /\ r[2] <= CellY(c) /\ CellY(c) < r[4]

\* The ordering of the three cost values used by the maximum merge.
Rank(v) == CASE v = FREE_SPACE -> 0 [] v = NO_INFORMATION -> 1 [] OTHER -> 2

\* CostmapLayer::updateWithOverwrite
UpdateWithOverwrite(m, cm, r) ==
  [c \in CellIds |-> IF InRegion(c, r) THEN cm[c] ELSE m[c]]

\* CostmapLayer::updateWithMax
UpdateWithMax(m, cm, r) ==
  [c \in CellIds |->
     IF InRegion(c, r) /\ Rank(cm[c]) > Rank(m[c]) THEN cm[c] ELSE m[c]]

(* ------------------------------------------------------------------ *)
(* Inputs of the host                                                   *)
(* ------------------------------------------------------------------ *)

\* Arguments of updateBounds: a robot pose <<x, y, yaw>> and the bounds
\* <<min_x, min_y, max_x, max_y>> so far.  The first has the robot on the
\* centre of the initial window and the empty rectangle a host starts a
\* cycle with; the second has the robot one cell further, turned by a
\* quarter, and a rectangle another layer has already asked for.
BoundsArgs ==
  { [pose |-> <<3, 1, 0>>, b |-> <<1000, 1000, -1000, -1000>>],
    [pose |-> <<5, 1, 1>>, b |-> <<0, 0, 2, 2>>] }

\* Windows <<min_i, min_j, max_i, max_j>> handed to updateCosts.
Regions == { <<1, 0, SizeX, SizeY>> }

\* The master costmap as the host hands it to updateCosts.
MasterInit ==
  [c \in CellIds |->
     CASE c % 3 = 0 -> LETHAL_OBSTACLE
       [] c % 3 = 1 -> NO_INFORMATION
       [] OTHER -> FREE_SPACE]

(* ------------------------------------------------------------------ *)
(* State                                                                *)
(* ------------------------------------------------------------------ *)

VARIABLES
  \* configuration fixed by onInitialize
  rolling_window_, footprint_clearing_enabled_, combination_method_,
  default_value_, filters_configuration_loaded_,
  \* members shared between the threads
  enabled_, subscribed, elevation_map_, elevation_map_received_,
  height_threshold_, mutex,
  \* the layer's costmap and the master costmap
  costmap_, origin_, transformed_footprint_, master_grid,
  \* elevationMapCallback: position, locals, invocations started, grids
  \* stored in elevation_map_, filtered commits completed
  cbpc, incoming_map, filtered_map, nCallbacks, nStores, nFiltered,
  \* the synchronous cycle: position, arguments and locals of updateBounds
  \* and updateCosts, and the grid generations updateCosts has read
  pc, robot, bounds, region, it, has_edges_layer, ucGens

config == <<rolling_window_, footprint_clearing_enabled_, combination_method_,
            default_value_, filters_configuration_loaded_>>
shared == <<elevation_map_, elevation_map_received_, height_threshold_>>
maps == <<costmap_, origin_, transformed_footprint_, master_grid>>
cbvars == <<cbpc, incoming_map, filtered_map, nCallbacks, nStores, nFiltered>>
syncvars == <<pc, robot, bounds, region, it, has_edges_layer, ucGens>>

vars == <<config, enabled_, subscribed, shared, mutex, maps, cbvars, syncvars>>

NoPose == <<0, 0, 0>>
NoBounds == <<0, 0, 0, 0>>
NoRegion == <<0, 0, 0, 0>>

\* The generation of the grid in elevation_map_: the number of grids stored.
GridGen == nStores

\* The generation height_threshold_ belongs to: a filtered commit has
\* adjusted the threshold once its halving is done.
ThrGen == nStores - (IF cbpc = "halve" THEN 1 ELSE 0)

\* An exception that leaves updateCosts is caught by nobody: the process
\* ends, and no thread takes another step.
Running == pc # "threw"

\* State after the constructor and onInitialize.
Init ==
  /\ rolling_window_ \in BOOLEAN
  /\ footprint_clearing_enabled_ \in BOOLEAN
  /\ combination_method_ \in {0, 1, 2}
  /\ default_value_ \in {NO_INFORMATION, FREE_SPACE}
  /\ filters_configuration_loaded_ \in BOOLEAN
  /\ enabled_ \in BOOLEAN
  /\ subscribed = TRUE
  /\ elevation_map_ = EmptyGrid
  /\ elevation_map_received_ = FALSE
  /\ height_threshold_ = HT(0)
  /\ mutex = "none"
  /\ costmap_ = ResetMaps(default_value_)
  /\ origin_ = <<0, 0>>
  /\ transformed_footprint_ = << >>
  /\ master_grid = MasterInit
  /\ cbpc = "idle"
  /\ incoming_map = EmptyGrid
  /\ filtered_map = EmptyGrid
  /\ nCallbacks = 0
  /\ nStores = 0
  /\ nFiltered = 0
  /\ pc = "idle"
  /\ robot = NoPose
  /\ bounds = NoBounds
  /\ region = NoRegion
  /\ it = 0
  /\ has_edges_layer = FALSE
  /\ ucGens = {}

(* ------------------------------------------------------------------ *)
(* elevationMapCallback, on the subscriber thread                       *)
(* ------------------------------------------------------------------ *)

\* Lines 149-158: the message is converted (a failed conversion only warns),
\* its start index is normalised, a foreign frame only warns.  The callback
\* then evaluates the condition of line 159, which runs the filter chain
\* when it was configured; the chain runs without the mutex.
elevationMapCallback ==
  /\ Running
  /\ cbpc = "idle"
  /\ subscribed
  /\ nCallbacks < MaxCallbacks
  /\ \E m \in Msgs :
       incoming_map' = ConvertToDefaultStartIndex(m)
  /\ cbpc' = "filter"
  /\ nCallbacks' = nCallbacks + 1
  /\ UNCHANGED <<config, enabled_, subscribed, shared, mutex, maps,
                 filtered_map, nStores, nFiltered, syncvars>>

\* storeFiltered without the lock_guard of line 160.
storeFiltered_NoMutex ==
  /\ Running
  /\ cbpc = "filter"
  /\ filters_configuration_loaded_
  /\ filtered_map' = FilterOutput(incoming_map)
  /\ elevation_map_' = FilterOutput(incoming_map)
  /\ nStores' = nStores + 1
  /\ cbpc' = "halve"
  /\ UNCHANGED <<config, enabled_, subscribed, elevation_map_received_,
                 height_threshold_, mutex, maps, incoming_map, nCallbacks,
                 nFiltered, syncvars>>

\* Lines 159-161: the chain was configured and its update succeeded; the
\* mutex is taken and the filtered grid is stored.
storeFiltered ==
  /\ Running
  /\ cbpc = "filter"
  /\ filters_configuration_loaded_
  /\ mutex = "none"
  /\ mutex' = "cb"
  /\ filtered_map' = FilterOutput(incoming_map)
  /\ elevation_map_' = FilterOutput(incoming_map)
  /\ nStores' = nStores + 1
  /\ cbpc' = "halve"
  /\ UNCHANGED <<config, enabled_, subscribed, elevation_map_received_,
                 height_threshold_, maps, incoming_map, nCallbacks, nFiltered,
                 syncvars>>

\* Lines 162-163: the threshold is halved and the mutex released.
halveThreshold ==
  /\ Running
  /\ cbpc = "halve"
  /\ height_threshold_' = height_threshold_ \div 2
  /\ nFiltered' = nFiltered + 1
  /\ mutex' = "none"
  /\ cbpc' = "flag"
  /\ UNCHANGED <<config, enabled_, subscribed, elevation_map_,
                 elevation_map_received_, maps, incoming_map, filtered_map,
                 nCallbacks, nStores, syncvars>>

\* storeRaw that halves the threshold as the filtered branch does.
storeRaw_Halves ==
  /\ Running
  /\ cbpc = "filter"
  /\ mutex = "none"
  /\ elevation_map_' = incoming_map
  /\ height_threshold_' = height_threshold_ \div 2
  /\ nStores' = nStores + 1
  /\ cbpc' = "flag"
  /\ UNCHANGED <<config, enabled_, subscribed, elevation_map_received_,
                 mutex, maps, incoming_map, filtered_map,
                 nCallbacks, nFiltered, syncvars>>

\* storeRaw without the lock_guard of line 164.
storeRaw_NoMutex ==
  /\ Running
  /\ cbpc = "filter"
  /\ elevation_map_' = incoming_map
  /\ nStores' = nStores + 1
  /\ cbpc' = "flag"
  /\ UNCHANGED <<config, enabled_, subscribed, elevation_map_received_,
                 height_threshold_, mutex, maps, incoming_map, filtered_map,
                 nCallbacks, nFiltered, syncvars>>

\* Lines 159, 163-167: the chain was not configured or its update failed;
\* the raw grid is stored under the mutex.
storeRaw ==
  /\ Running
  /\ cbpc = "filter"
  /\ mutex = "none"
  /\ elevation_map_' = incoming_map
  /\ nStores' = nStores + 1
  /\ cbpc' = "flag"
  /\ UNCHANGED <<config, enabled_, subscribed, elevation_map_received_,
                 height_threshold_, mutex, maps, incoming_map, filtered_map,
                 nCallbacks, nFiltered, syncvars>>

\* Lines 168-172: the flag is set after the mutex was released; the
\* callback returns.
setReceived ==
  /\ Running
  /\ cbpc = "flag"
  /\ elevation_map_received_' = TRUE
  /\ cbpc' = "idle"
  /\ incoming_map' = EmptyGrid
  /\ filtered_map' = EmptyGrid
  /\ UNCHANGED <<config, enabled_, subscribed, elevation_map_,
                 height_threshold_, mutex, maps, nCallbacks, nStores,
                 nFiltered, syncvars>>

(* ------------------------------------------------------------------ *)
(* The synchronous cycle, on the costmap update thread                  *)
(* ------------------------------------------------------------------ *)

\* Line 70: the origin that centres the window on the robot.
RolledOrigin(p) ==
  << NewOrigin(origin_[1], p[1] - (SizeX * Res) \div 2),
     NewOrigin(origin_[2], p[2] - (SizeY * Res) \div 2) >>

\* Lines 74-82: the bounds after the cells k, k+1, ... of g were touched.
RECURSIVE TouchCells(_, _, _)
TouchCells(g, k, b) ==
  IF k >= GridCells(g) THEN b
  ELSE LET p == GridPosition(g, k)
       IN  TouchCells(g, k + 1, Touch(b, p[1], p[2]))

\* Lines 91-93: the bounds after the vertices i, i+1, ... were touched.
RECURSIVE TouchVertices(_, _, _)
TouchVertices(poly, i, b) ==
  IF i > Len(poly) THEN b
  ELSE TouchVertices(poly, i + 1, Touch(b, poly[i][1], poly[i][2]))

\* updateFootprint without the early return of line 88.
updateFootprint_Always(p, b) ==
  LET tf == TransformFootprint(p[1], p[2], p[3], Footprint)
  IN  <<tf, TouchVertices(tf, 1, b)>>

\* Lines 88-93: updateFootprint, as <<transformed_footprint_, bounds>>.
updateFootprint(p, b) ==
  IF footprint_clearing_enabled_
  THEN LET tf == TransformFootprint(p[1], p[2], p[3], Footprint)
       IN  <<tf, TouchVertices(tf, 1, b)>>
  ELSE <<transformed_footprint_, b>>

\* updateBounds without the early return of line 71.
updateBounds_NoEarlyReturn ==
  /\ pc = "idle"
  /\ mutex = "none"
  /\ \E a \in BoundsArgs :
       LET p == a.pose
           b == a.b
           o == IF rolling_window_ THEN RolledOrigin(p) ELSE origin_
           r == updateFootprint(p, TouchCells(elevation_map_, 0, UseExtraBounds(b)))
       IN  /\ robot' = p
           /\ origin_' = o
           /\ costmap_' = IF rolling_window_
                          THEN ShiftCostmap(costmap_, default_value_,
                                            (o[1] - origin_[1]) \div Res,
                                            (o[2] - origin_[2]) \div Res)
                          ELSE costmap_
           /\ transformed_footprint_' = r[1]
           /\ bounds' = r[2]
  /\ pc' = "bounds_done"
  /\ UNCHANGED <<config, enabled_, subscribed, shared, mutex, master_grid,
                 cbvars, region, it, has_edges_layer, ucGens>>

\* Lines 67-84: updateBounds holds the mutex from its first line to its
\* return.  It recentres a rolling window, returns at once unless the layer
\* is enabled and a grid was received, and otherwise touches every cell of
\* the grid and every vertex of the footprint.
updateBounds ==
  /\ pc = "idle"
  /\ mutex = "none"
  /\ \E a \in BoundsArgs :
       LET p == a.pose
           b == a.b
           o == IF rolling_window_ THEN RolledOrigin(p) ELSE origin_
           r == updateFootprint(p, TouchCells(elevation_map_, 0, UseExtraBounds(b)))
       IN  /\ robot' = p
           /\ origin_' = o
           /\ costmap_' = IF rolling_window_
                          THEN ShiftCostmap(costmap_, default_value_,
                                            (o[1] - origin_[1]) \div Res,
                                            (o[2] - origin_[2]) \div Res)
                          ELSE costmap_
           /\ IF enabled_ /\ elevation_map_received_
              THEN /\ transformed_footprint_' = r[1]
                   /\ bounds' = r[2]
              ELSE /\ bounds' = b
                   /\ UNCHANGED transformed_footprint_
  /\ pc' = "bounds_done"
  /\ UNCHANGED <<config, enabled_, subscribed, shared, mutex, master_grid,
                 cbvars, region, it, has_edges_layer, ucGens>>

\* updateCosts whose early return of line 98 tests the received flag only.
updateCosts_IgnoresEnabled ==
  /\ pc = "bounds_done"
  /\ mutex = "none"
  /\ \E r \in Regions :
       IF ~elevation_map_received_
       THEN /\ pc' = "costs_done"
            /\ region' = r
            /\ UNCHANGED <<mutex, robot, bounds, it, has_edges_layer, ucGens>>
       ELSE IF ~elevation_map_.hasElev
       THEN /\ pc' = "threw"
            /\ UNCHANGED <<mutex, robot, bounds, region, it, has_edges_layer,
                           ucGens>>
       ELSE /\ mutex' = "sync"
            /\ has_edges_layer' = elevation_map_.hasEdges
            /\ region' = r
            /\ it' = 0
            /\ ucGens' = {GridGen}
            /\ pc' = "uc_loop"
            /\ UNCHANGED <<robot, bounds>>
  /\ UNCHANGED <<config, enabled_, subscribed, shared, maps, cbvars>>

\* updateCosts that starts by resetting the layer's costmap.
updateCosts_ClearsBuffer ==
  /\ pc = "bounds_done"
  /\ mutex = "none"
  /\ \E r \in Regions :
       IF ~enabled_ \/ ~elevation_map_received_
       THEN /\ pc' = "costs_done"
            /\ region' = r
            /\ UNCHANGED <<mutex, robot, bounds, it, has_edges_layer, ucGens>>
       ELSE IF ~elevation_map_.hasElev
       THEN /\ pc' = "threw"
            /\ UNCHANGED <<mutex, robot, bounds, region, it, has_edges_layer,
                           ucGens>>
       ELSE /\ mutex' = "sync"
            /\ has_edges_layer' = elevation_map_.hasEdges
            /\ region' = r
            /\ it' = 0
            /\ ucGens' = {GridGen}
            /\ pc' = "uc_loop"
            /\ UNCHANGED <<robot, bounds>>
  /\ costmap_' = ResetMaps(default_value_)
  /\ UNCHANGED <<config, enabled_, subscribed, shared, origin_,
                 transformed_footprint_, master_grid, cbvars>>

\* Lines 96-103: updateCosts takes the mutex and returns at once unless the
\* layer is enabled and a grid was received; reading a layer the grid does
\* not hold throws std::out_of_range.
updateCosts ==
  /\ pc = "bounds_done"
  /\ mutex = "none"
  /\ \E r \in Regions :
       IF ~enabled_ \/ ~elevation_map_received_
       THEN /\ pc' = "costs_done"
            /\ region' = r
            /\ UNCHANGED <<mutex, robot, bounds, it, has_edges_layer, ucGens>>
       ELSE IF ~elevation_map_.hasElev
       THEN /\ pc' = "threw"
            /\ UNCHANGED <<mutex, robot, bounds, region, it, has_edges_layer,
                           ucGens>>
       ELSE /\ mutex' = "sync"
            /\ has_edges_layer' = elevation_map_.hasEdges
            /\ region' = r
            /\ it' = 0
            /\ ucGens' = {GridGen}
            /\ pc' = "uc_loop"
            /\ UNCHANGED <<robot, bounds>>
  /\ UNCHANGED <<config, enabled_, subscribed, shared, maps, cbvars>>

\* CellCost with >= for > in line 116.
CellCost_NonStrict(g, k, thr, hasEdges) ==
  IF g.elev[k + 1] >= thr
  THEN IF hasEdges /\ g.edges[k + 1] < EdgesSharpnessParam
       THEN FREE_SPACE
       ELSE LETHAL_OBSTACLE
  ELSE FREE_SPACE

\* Lines 116-129: the cost of the grid cell of storage index k.
CellCost(g, k, thr, hasEdges) ==
  IF g.elev[k + 1] > thr
  THEN IF hasEdges /\ g.edges[k + 1] < EdgesSharpnessParam
       THEN FREE_SPACE
       ELSE LETHAL_OBSTACLE
  ELSE FREE_SPACE

\* Lines 104-130: the whole loop at once, from cell k on: the layer's costmap
\* after every cell of elevation_map_ that maps into it was painted, in the
\* order of the iterator.
RECURSIVE PaintCells(_, _)
PaintCells(cm, k) ==
  IF k >= GridCells(elevation_map_) THEN cm
  ELSE LET p == GridPosition(elevation_map_, k)
           wm == WorldToMap(origin_[1], origin_[2], p[1], p[2])
       IN  IF ~wm[1]
           THEN PaintCells(cm, k + 1)
           ELSE PaintCells([cm EXCEPT ![GetIndex(wm[2], wm[3])] =
                              CellCost(elevation_map_, k, height_threshold_,
                                       elevation_map_.hasEdges)],
                           k + 1)

\* Lines 104-130: one iteration of the loop over the grid.
updateCostsCell ==
  /\ pc = "uc_loop"
  /\ it < GridCells(elevation_map_)
  /\ LET p == GridPosition(elevation_map_, it)
         wm == WorldToMap(origin_[1], origin_[2], p[1], p[2])
     IN  IF ~wm[1]
         THEN /\ ucGens' = ucGens \cup {GridGen}
              /\ it' = it + 1
              /\ UNCHANGED <<costmap_, pc>>
         ELSE IF ~elevation_map_.hasElev \/ (has_edges_layer /\ ~elevation_map_.hasEdges)
         THEN /\ pc' = "threw"
              /\ UNCHANGED <<costmap_, it, ucGens>>
         ELSE /\ costmap_' =
                   [costmap_ EXCEPT ![GetIndex(wm[2], wm[3])] =
                      CellCost(elevation_map_, it, height_threshold_, has_edges_layer)]
              /\ ucGens' = ucGens \cup {GridGen, ThrGen}
              /\ it' = it + 1
              /\ UNCHANGED pc
  /\ UNCHANGED <<config, enabled_, subscribed, shared, mutex, origin_,
                 transformed_footprint_, master_grid, cbvars, robot, bounds,
                 region, has_edges_layer>>

\* Lines 132-134: the footprint is cleared in the layer's costmap.
ClearFootprint(cm) ==
  IF footprint_clearing_enabled_
  THEN SetConvexPolygonCost(cm, origin_[1], origin_[2], transformed_footprint_,
                            FREE_SPACE)
  ELSE cm

\* CostmapLayer::updateWithAddition: the costs are added and capped just
\* below the inscribed cost; an unknown master cell takes the layer's cost.
UpdateWithAddition(m, cm, r) ==
  [c \in CellIds |->
     IF ~InRegion(c, r) \/ cm[c] = NO_INFORMATION THEN m[c]
     ELSE IF m[c] = NO_INFORMATION THEN cm[c]
     ELSE IF m[c] + cm[c] >= LETHAL_OBSTACLE - 1 THEN LETHAL_OBSTACLE - 2
     ELSE m[c] + cm[c]]

\* Combine whose case 1 adds the costs instead of taking their maximum.
Combine_Addition(m, cm, r) ==
  CASE combination_method_ = 0 -> UpdateWithOverwrite(m, cm, r)
    [] combination_method_ = 1 -> UpdateWithAddition(m, cm, r)
    [] OTHER -> m

\* Combine with the cases 0 and 1 of the switch exchanged.
Combine_Swapped(m, cm, r) ==
  CASE combination_method_ = 0 -> UpdateWithMax(m, cm, r)
    [] combination_method_ = 1 -> UpdateWithOverwrite(m, cm, r)
    [] OTHER -> m

\* Lines 136-145: the layer's costmap is merged into the master.
Combine(m, cm, r) ==
  CASE combination_method_ = 0 -> UpdateWithOverwrite(m, cm, r)
    [] combination_method_ = 1 -> UpdateWithMax(m, cm, r)
    [] OTHER -> m

\* Lines 132-146: after the loop the footprint is cleared, the master is
\* updated, the mutex is released and updateCosts returns.
updateCostsFinish ==
  /\ pc = "uc_loop"
  /\ it >= GridCells(elevation_map_)
  /\ costmap_' = ClearFootprint(costmap_)
  /\ master_grid' = Combine(master_grid, ClearFootprint(costmap_), region)
  /\ mutex' = "none"
  /\ pc' = "costs_done"
  /\ UNCHANGED <<config, enabled_, subscribed, shared, origin_,
                 transformed_footprint_, cbvars, robot, bounds, region, it,
                 has_edges_layer, ucGens>>

\* The host's cycle ends: the arguments and locals of the two calls are
\* gone, and the host prepares the master for the next cycle.
cycleDone ==
  /\ pc = "costs_done"
  /\ pc' = "idle"
  /\ robot' = NoPose
  /\ bounds' = NoBounds
  /\ region' = NoRegion
  /\ it' = 0
  /\ has_edges_layer' = FALSE
  /\ ucGens' = {}
  /\ master_grid' = MasterInit
  /\ UNCHANGED <<config, enabled_, subscribed, shared, mutex, costmap_,
                 origin_, transformed_footprint_, cbvars>>

(* ------------------------------------------------------------------ *)
(* Calls of the host                                                    *)
(* ------------------------------------------------------------------ *)

\* Line 181: the enabled flag is written without the mutex.
reconfigureCB ==
  /\ Running
  /\ \E e \in BOOLEAN : enabled_' = e
  /\ UNCHANGED <<config, subscribed, shared, mutex, maps, cbvars, syncvars>>

\* Lines 190-194: the layer subscribes to the topic.
activate ==
  /\ Running
  /\ subscribed' = TRUE
  /\ UNCHANGED <<config, enabled_, shared, mutex, maps, cbvars, syncvars>>

\* Line 195: the subscriber is shut down; a callback that is running goes on.
deactivate ==
  /\ Running
  /\ subscribed' = FALSE
  /\ UNCHANGED <<config, enabled_, shared, mutex, maps, cbvars, syncvars>>

\* reset that also reads height_threshold again.
reset_RestoresThreshold ==
  /\ pc = "idle"
  /\ costmap_' = ResetMaps(default_value_)
  /\ subscribed' = TRUE
  /\ height_threshold_' = HT(0)
  /\ UNCHANGED <<config, enabled_, elevation_map_, elevation_map_received_,
                 mutex, origin_, transformed_footprint_, master_grid, cbvars,
                 syncvars>>

\* reset without the activate() of line 187.
reset_NoActivate ==
  /\ pc = "idle"
  /\ costmap_' = ResetMaps(default_value_)
  /\ subscribed' = FALSE
  /\ UNCHANGED <<config, enabled_, shared, mutex, origin_,
                 transformed_footprint_, master_grid, cbvars, syncvars>>

\* Lines 183-188: deactivate, Costmap2D::resetMaps, activate.  The host
\* calls reset between two cycles.
reset ==
  /\ pc = "idle"
  /\ costmap_' = ResetMaps(default_value_)
  /\ subscribed' = TRUE
  /\ UNCHANGED <<config, enabled_, shared, mutex, origin_,
                 transformed_footprint_, master_grid, cbvars, syncvars>>

(* ------------------------------------------------------------------ *)
(* Specification                                                        *)
(* ------------------------------------------------------------------ *)

Next ==
  \/ elevationMapCallback
  \/ storeFiltered
  \/ halveThreshold
  \/ storeRaw
  \/ setReceived
  \/ updateBounds
  \/ updateCosts
  \/ updateCostsCell
  \/ updateCostsFinish
  \/ cycleDone
  \/ reconfigureCB
  \/ activate
  \/ deactivate
  \/ reset

Spec == Init /\ [][Next]_vars

\* The specification with the scheduling the threads have: the mutex is
\* granted to a callback that keeps asking for it (the filter chain has
\* returned by then), and a thread that can take its next step takes it.
FairSpec ==
  /\ Init
  /\ [][Next]_vars
  /\ SF_vars(storeFiltered \/ storeRaw)
  /\ WF_vars(halveThreshold)
  /\ WF_vars(setReceived)
  /\ WF_vars(updateCostsCell)
  /\ WF_vars(updateCostsFinish)

(* ------------------------------------------------------------------ *)
(* Properties                                                           *)
(* ------------------------------------------------------------------ *)

\* C1: everything one invocation of updateCosts reads from the shared state
\* (the presence of the edges layer, the cells of the grid, the threshold)
\* belongs to one grid generation, whatever elevationMapCallback does
\* meanwhile.
C1_OneGenerationPerUpdateCosts == Cardinality(ucGens) <= 1

\* C1 witness: updateCosts has read both cells of a grid while a callback
\* that holds the next grid waits for the mutex.
C1_Witness ==
  /\ pc = "uc_loop"
  /\ it = GridCells(elevation_map_)
  /\ it > 0
  /\ cbpc = "filter"
  /\ mutex = "sync"
  /\ ucGens = {nStores}

\* C2: whenever a reader can take or holds the mutex, the triple is that of
\* one commit: the received flag is set as soon as a grid is stored, and the
\* threshold is that of the stored grid.
C2_CommitVisibleAtOnce ==
  mutex # "cb" => /\ (elevation_map_received_ <=> nStores > 0)
                  /\ ThrGen = GridGen

\* C3: the threshold is the configured one halved once per completed
\* filtered commit; nothing else changes it.
C3_ThresholdHalvedPerFilteredCommit ==
  /\ nFiltered <= MaxCallbacks
  /\ height_threshold_ * Pow2(nFiltered) = HT(0)

\* C3 witness: one raw and one filtered commit are done, and a reset and a
\* cycle have run since; the threshold is half the configured one.
C3_Witness ==
  /\ cbpc = "idle"
  /\ nStores = 2
  /\ nFiltered = 1
  /\ height_threshold_ * 2 = HT(0)
  /\ pc = "costs_done"
  /\ ucGens # {}

\* The arguments of the updateBounds call that was made with pose p.
ArgsFor(p) == CHOOSE a \in BoundsArgs : a.pose = p

\* A step that is a whole call of updateBounds.
IsUpdateBounds == pc = "idle" /\ pc' = "bounds_done"

\* The step that enters updateCosts.
IsUpdateCostsEntry == pc = "bounds_done" /\ pc' # "bounds_done"

\* C4 as claimed: while no grid was received, updateBounds and updateCosts
\* change neither the layer's costmap nor its origin, nor the master, nor
\* the bounds, with or without a rolling window.
C4_NoOpBeforeFirstGrid ==
  [][ ~elevation_map_received_ =>
        /\ IsUpdateBounds =>
             /\ costmap_' = costmap_
             /\ origin_' = origin_
             /\ master_grid' = master_grid
             /\ bounds' = ArgsFor(robot').b
        /\ IsUpdateCostsEntry =>
             /\ pc' = "costs_done"
             /\ costmap_' = costmap_
             /\ origin_' = origin_
             /\ master_grid' = master_grid
             /\ bounds' = bounds ]_vars

\* C4 amended: while no grid was received, updateBounds and updateCosts
\* change neither the cells of the layer's costmap, nor the master, nor the
\* bounds; the origin is unchanged without a rolling window, and with one
\* updateBounds recentres it under the robot.
C4_NoOpButRollingOrigin ==
  [][ ~elevation_map_received_ =>
        /\ IsUpdateBounds =>
             /\ costmap_' = costmap_
             /\ origin_' = IF rolling_window_ THEN RolledOrigin(robot') ELSE origin_
             /\ master_grid' = master_grid
             /\ bounds' = ArgsFor(robot').b
        /\ IsUpdateCostsEntry =>
             /\ pc' = "costs_done"
             /\ costmap_' = costmap_
             /\ origin_' = origin_
             /\ master_grid' = master_grid
             /\ bounds' = bounds ]_vars

\* C4 witness: no callback has started, a cycle with a rolling window has
\* run both calls, and the origin has moved.
C4_Witness ==
  /\ nCallbacks = 0
  /\ pc = "costs_done"
  /\ rolling_window_
  /\ footprint_clearing_enabled_
  /\ origin_ # <<0, 0>>
  /\ bounds = ArgsFor(robot).b

\* The world point <<x, y>> lies within the bounds b.
InBounds(b, x, y) == b[1] <= x /\ x <= b[3] /\ b[2] <= y /\ y <= b[4]

\* C5: a call of updateBounds made while the layer is disabled returns the
\* bounds it was given, and a call of updateCosts made while it is disabled
\* writes neither costmap; with the layer enabled and a grid received,
\* updateBounds covers the grid and updateCosts goes on to read it.
C5_DisabledNoContribution ==
  [][ /\ (~enabled_ /\ IsUpdateBounds) => bounds' = ArgsFor(robot').b
      /\ (~enabled_ /\ IsUpdateCostsEntry) =>
           /\ pc' = "costs_done"
           /\ costmap_' = costmap_
           /\ master_grid' = master_grid
      /\ (enabled_ /\ elevation_map_received_ /\ IsUpdateBounds) =>
           \A k \in 0 .. (GridCells(elevation_map_) - 1) :
              InBounds(bounds', GridPosition(elevation_map_, k)[1],
                                GridPosition(elevation_map_, k)[2])
      /\ (enabled_ /\ elevation_map_received_ /\ IsUpdateCostsEntry) =>
           pc' \in {"uc_loop", "threw"} ]_vars

\* C5 witness: a grid was received and painted in an earlier cycle, the
\* layer is disabled, and updateCosts has returned without reading the grid.
C5_Witness ==
  /\ pc = "costs_done"
  /\ ucGens = {}
  /\ ~enabled_
  /\ elevation_map_received_
  /\ \E c \in CellIds : costmap_[c] = LETHAL_OBSTACLE
  /\ master_grid = MasterInit
  /\ bounds = ArgsFor(robot).b

\* C6: an invocation of the callback replaces the grid exactly once: by the
\* raw grid, with the threshold as it was, when the chain is not configured
\* or fails; by the output of the chain, when it is configured and succeeds.
C6_RawOrFilteredCommit ==
  [][ /\ (cbpc = "filter" /\ cbpc' # "filter") =>
           \/ /\ cbpc' = "flag"
              /\ elevation_map_' = incoming_map
              /\ height_threshold_' = height_threshold_
           \/ /\ cbpc' = "halve"
              /\ filters_configuration_loaded_
              /\ elevation_map_' = FilterOutput(incoming_map)
      /\ cbpc # "filter" => elevation_map_' = elevation_map_
      /\ (cbpc = "halve" /\ cbpc' # "halve") =>
           height_threshold_' * 2 = height_threshold_
      /\ (cbpc = "flag" /\ cbpc' = "idle") => nStores = nCallbacks ]_vars

\* C6 witness: the chain is configured, its update failed, and the raw grid
\* was stored with the threshold at its configured value.
C6_Witness ==
  /\ cbpc = "flag"
  /\ filters_configuration_loaded_
  /\ incoming_map.hasElev
  /\ elevation_map_ = incoming_map
  /\ ~elevation_map_.hasEdges
  /\ height_threshold_ = HT(0)
  /\ nStores = 1

\* The costmap cell the grid cell of storage index k maps to.
MapsTo(k) ==
  LET p == GridPosition(elevation_map_, k)
  IN  WorldToMap(origin_[1], origin_[2], p[1], p[2])

\* C7: the classification of the claim.
ExpectedCost(g, k, thr) ==
  IF g.elev[k + 1] > thr /\ (~g.hasEdges \/ g.edges[k + 1] >= EdgesSharpnessParam)
  THEN LETHAL_OBSTACLE
  ELSE FREE_SPACE

\* C7: during the loop of updateCosts, every grid cell visited so far that
\* maps into the costmap (and that no later visited cell maps onto) has left
\* LETHAL there if its elevation is strictly above the threshold and the
\* edges layer is absent or its value is at least the sharpness threshold,
\* and FREE otherwise.
C7_Classification ==
  pc = "uc_loop" =>
    \A k \in 0 .. (it - 1) :
      (MapsTo(k)[1] /\ \A j \in (k + 1) .. (it - 1) : MapsTo(j) # MapsTo(k)) =>
        costmap_[GetIndex(MapsTo(k)[2], MapsTo(k)[3])] =
          ExpectedCost(elevation_map_, k, height_threshold_)

\* C7 witness: the loop has painted a cell whose elevation equals the
\* threshold FREE, and a cell above the threshold whose edges value equals
\* the sharpness threshold LETHAL.
C7_Witness ==
  /\ pc = "uc_loop"
  /\ it = GridCells(elevation_map_)
  /\ \E k \in 0 .. (it - 1) :
       /\ MapsTo(k)[1]
       /\ elevation_map_.elev[k + 1] = height_threshold_
       /\ costmap_[GetIndex(MapsTo(k)[2], MapsTo(k)[3])] = FREE_SPACE
  /\ \E k \in 0 .. (it - 1) :
       /\ MapsTo(k)[1]
       /\ elevation_map_.hasEdges
       /\ elevation_map_.elev[k + 1] > height_threshold_
       /\ elevation_map_.edges[k + 1] = EdgesSharpnessParam
       /\ costmap_[GetIndex(MapsTo(k)[2], MapsTo(k)[3])] = LETHAL_OBSTACLE

\* C8 as claimed: with footprint clearing enabled, after an updateCosts
\* that has painted, every cell under the footprint at the pose of the
\* current cycle is FREE.
C8_FootprintCellsFree ==
  (pc = "costs_done" /\ ucGens # {} /\ footprint_clearing_enabled_) =>
    \A c \in CellsUnder(origin_[1], origin_[2],
                        TransformFootprint(robot[1], robot[2], robot[3], Footprint)) :
      costmap_[c] = FREE_SPACE

\* C9: the merge follows combination_method_: 0 copies every cell of the
\* window from the layer's costmap, UNKNOWN included; 1 never lowers the rank
\* of a master cell; any other value leaves the master alone; cells outside
\* the window are never changed, and a call that returns early changes none.
\* The dispatch is that of lines 136-145; what the two merges do to a cell
\* is that of UpdateWithOverwrite and UpdateWithMax above, which stand for
\* library code and follow its description, not its source.
C9_Compositing ==
  [][ /\ (pc = "uc_loop" /\ pc' = "costs_done") =>
           /\ \A c \in CellIds :
                ~InRegion(c, region) => master_grid'[c] = master_grid[c]
           /\ combination_method_ = 0 =>
                \A c \in CellIds :
                  InRegion(c, region) => master_grid'[c] = costmap_'[c]
           /\ combination_method_ = 1 =>
                \A c \in CellIds : Rank(master_grid'[c]) >= Rank(master_grid[c])
           /\ combination_method_ \notin {0, 1} => master_grid' = master_grid
      /\ (pc = "bounds_done" /\ pc' = "costs_done") =>
           master_grid' = master_grid ]_vars

\* C9 witness: with method 0 a cell of the window that was not UNKNOWN in
\* the master has become UNKNOWN, as it is in the layer's costmap.
C9_Witness ==
  /\ pc = "costs_done"
  /\ ucGens # {}
  /\ combination_method_ = 0
  /\ \E c \in CellIds :
       /\ InRegion(c, region)
       /\ MasterInit[c] # NO_INFORMATION
       /\ costmap_[c] = NO_INFORMATION
       /\ master_grid[c] = NO_INFORMATION
  /\ \E c \in CellIds :
       /\ ~InRegion(c, region)
       /\ costmap_[c] # master_grid[c]

\* C10 as claimed: reset leaves the grid cleared, the received flag false
\* and the layer subscribed.
C10_ResetClearsSharedState ==
  [][ reset => /\ elevation_map_' = EmptyGrid
               /\ elevation_map_received_' = FALSE
               /\ subscribed' ]_vars

\* C11: while the layer is not subscribed no invocation of the callback
\* starts, and once the invocation in flight has returned the grid, the
\* flag and the threshold stay as they are; deactivate leaves the layer
\* unsubscribed, and activate and reset leave it subscribed, whether or not
\* it was subscribed before.
C11_NoCallbackWhileDeactivated ==
  [][ /\ ~subscribed => nCallbacks' = nCallbacks
      /\ (~subscribed /\ cbpc = "idle") => shared' = shared
      /\ deactivate => ~subscribed'
      /\ (activate \/ reset) => subscribed' ]_vars

\* C11 witness: the layer is deactivated while the second invocation of
\* the callback is in flight; that invocation has stored its grid and is
\* about to return.
C11_Witness ==
  /\ ~subscribed
  /\ cbpc = "flag"
  /\ nCallbacks = 2
  /\ nStores = 2
  /\ elevation_map_received_
  /\ elevation_map_ = incoming_map

\* The centre of the costmap cell c, in world coordinates.
CellCentre(c) ==
  << origin_[1] + CellX(c) * Res + Res \div 2,
     origin_[2] + CellY(c) * Res + Res \div 2 >>

\* C12 as claimed: the bounds updateBounds returned in a cycle contain the
\* position of every grid cell updateCosts has painted into the layer's
\* costmap in that cycle, and every cell the footprint sweep has cleared.
C12_BoundsCoverWrites ==
  /\ pc = "uc_loop" =>
       \A k \in 0 .. (it - 1) :
         MapsTo(k)[1] => InBounds(bounds, GridPosition(elevation_map_, k)[1],
                                          GridPosition(elevation_map_, k)[2])
  /\ (pc = "costs_done" /\ ucGens # {} /\ footprint_clearing_enabled_) =>
       \A c \in CellsUnder(origin_[1], origin_[2], transformed_footprint_) :
         InBounds(bounds, CellCentre(c)[1], CellCentre(c)[2])

\* C13: when updateCosts returns, running it once more on the state it
\* leaves (same grid, threshold, origin, footprint and window) would leave
\* the layer's costmap and the master as they are.
C13_RasterizeIdempotent ==
  [][ (pc = "uc_loop" /\ pc' = "costs_done") =>
        LET again == ClearFootprint(PaintCells(costmap_', 0))
        IN  /\ again = costmap_'
            /\ Combine(master_grid', again, region) = master_grid' ]_vars

\* C13 witness: updateCosts has returned with the maximum merge, having
\* painted a LETHAL cell over an unknown cell of the master inside the
\* window, with a cell under the footprint cleared.
C13_Witness ==
  /\ pc = "costs_done"
  /\ ucGens # {}
  /\ combination_method_ = 1
  /\ footprint_clearing_enabled_
  /\ CellsUnder(origin_[1], origin_[2], transformed_footprint_) # {}
  /\ \E c \in CellIds :
       /\ InRegion(c, region)
       /\ MasterInit[c] = NO_INFORMATION
       /\ costmap_[c] = LETHAL_OBSTACLE
       /\ master_grid[c] = LETHAL_OBSTACLE

\* C14 as claimed: whatever grid the callback has committed, updateBounds
\* and updateCosts complete; no call ends in an exception.
C14_NothingFatal == pc # "threw"

\* C15 as claimed: between the updateBounds and the updateCosts of one
\* cycle no commit of the callback takes effect: the grid, the received
\* flag and the threshold stay as updateBounds saw them.
C15_CycleSeesOneCommit ==
  [][ pc = "bounds_done" => shared' = shared ]_vars

SetMin(S) == CHOOSE x \in S : \A y \in S : x <= y
SetMax(S) == CHOOSE x \in S : \A y \in S : x >= y

\* The positions of the cells of the grid g, as a set.
GridPoints(g) == { GridPosition(g, k) : k \in 0 .. (GridCells(g) - 1) }

\* The vertices of the footprint at the pose p, as a set.
FootprintPoints(p) ==
  { TransformFootprint(p[1], p[2], p[3], Footprint)[i] : i \in 1 .. Len(Footprint) }

\* C16: with the layer enabled and a grid received, updateBounds returns
\* the smallest rectangle that contains the rectangle it was given, the
\* position of every cell of the grid and, with footprint clearing enabled
\* only, every vertex of the footprint at the pose of the call; the
\* rectangle is that of the set of these points, whatever their order.
C16_BoundsAreUnionOfPoints ==
  [][ (enabled_ /\ elevation_map_received_ /\ IsUpdateBounds) =>
        LET b == ArgsFor(robot').b
            pts == GridPoints(elevation_map_) \cup
                   (IF footprint_clearing_enabled_
                    THEN FootprintPoints(robot') ELSE {})
        IN  bounds' = << SetMin({b[1]} \cup {p[1] : p \in pts}),
                         SetMin({b[2]} \cup {p[2] : p \in pts}),
                         SetMax({b[3]} \cup {p[1] : p \in pts}),
                         SetMax({b[4]} \cup {p[2] : p \in pts}) >> ]_vars

\* C16 witness: updateBounds has run with the layer enabled, a grid with
\* cells received and footprint clearing enabled; the rectangle it was
\* given has grown, and a vertex of the footprint lies further out than
\* every cell of the grid.
C16_Witness ==
  /\ pc = "bounds_done"
  /\ enabled_
  /\ elevation_map_received_
  /\ footprint_clearing_enabled_
  /\ GridCells(elevation_map_) > 0
  /\ transformed_footprint_ = TransformFootprint(robot[1], robot[2], robot[3], Footprint)
  /\ bounds # ArgsFor(robot).b
  /\ bounds # TouchCells(elevation_map_, 0, ArgsFor(robot).b)
  /\ \A p \in GridPoints(elevation_map_) \cup FootprintPoints(robot) :
       InBounds(bounds, p[1], p[2])

\* C17 as claimed: an invocation of the callback whose message could not be
\* converted leaves the grid, the received flag and the threshold as they
\* were.
C17_FailedConversionKeepsGrid ==
  [][ (cbpc # "idle" /\ ~FromMessageOk(incoming_map)) => shared' = shared ]_vars

\* C18 as claimed: while the callback executes the update of the filter
\* chain, no step of updateBounds or updateCosts is taken.
C18_FilterStallsCycle ==
  [][ (cbpc = "filter" /\ filters_configuration_loaded_) =>
        \/ pc' = pc /\ it' = it
        \/ pc = "costs_done" ]_vars

\* C18 amended: while the callback executes the update of the filter chain
\* the mutex is not its own, so that updateBounds and updateCosts go on;
\* only while the callback is between its store and the release of the
\* mutex is no step of updateBounds or updateCosts taken.
C18_OnlyCommitStallsCycle ==
  [][ /\ cbpc = "filter" => mutex # "cb"
      /\ cbpc = "halve" =>
           /\ mutex = "cb"
           /\ \/ pc' = pc /\ it' = it
              \/ pc = "costs_done" ]_vars

\* C18 witness: the chain is configured and the second invocation of the
\* callback is at its update, while updateCosts, entered since, has
\* painted a cell of the first grid.
C18_Witness ==
  /\ cbpc = "filter"
  /\ filters_configuration_loaded_
  /\ nCallbacks = 2
  /\ nStores = 1
  /\ pc = "uc_loop"
  /\ it > 0
  /\ mutex = "sync"

\* C19 as claimed: under FairSpec every invocation of the callback that
\* has started stores its grid and returns.
C19_StartedCallbackReturns == (cbpc # "idle") ~> (cbpc = "idle")

\* The costmap cell c is the one the grid cell of storage index k maps to.
PaintedBy(c, k) == MapsTo(k) = <<TRUE, CellX(c), CellY(c)>>

\* C20: updateCosts writes the layer's costmap nowhere on entry; an
\* iteration of its loop changes at most the cell its grid cell maps to,
\* and none when the grid cell falls outside the costmap; its end changes
\* only cells under the stored footprint, and only with footprint clearing
\* enabled.  Every other cell keeps its value.
C20_WritesOnlyMappedOrFootprint ==
  [][ /\ IsUpdateCostsEntry => costmap_' = costmap_
      /\ (pc = "uc_loop" /\ pc' = "uc_loop") =>
           \A c \in CellIds :
             costmap_'[c] # costmap_[c] => PaintedBy(c, it)
      /\ (pc = "uc_loop" /\ pc' = "costs_done") =>
           \A c \in CellIds :
             costmap_'[c] # costmap_[c] =>
               /\ footprint_clearing_enabled_
               /\ c \in CellsUnder(origin_[1], origin_[2], transformed_footprint_) ]_vars

\* C20 witness: updateCosts has returned after rasterizing the second grid,
\* one cell of which falls outside the costmap; a cell no cell of this grid
\* maps to, and that is not under the footprint, is still LETHAL from the
\* first grid.
C20_Witness ==
  /\ pc = "costs_done"
  /\ ucGens = {2}
  /\ \E k \in 0 .. (GridCells(elevation_map_) - 1) : ~MapsTo(k)[1]
  /\ \E c \in CellIds :
       /\ costmap_[c] = LETHAL_OBSTACLE
       /\ \A k \in 0 .. (GridCells(elevation_map_) - 1) : ~PaintedBy(c, k)
       /\ c \notin CellsUnder(origin_[1], origin_[2], transformed_footprint_)

====
